---- MODULE Spec2Model ----
(***************************************************************************)
(* Authentication subsystem of panicless-library: the OAuth2               *)
(* authorization-code grant (backend/src/handlers/oauth.rs), the signed    *)
(* token issuer/verifier and the dual-mode gate                            *)
(* (backend/src/middleware/auth.rs), login and refresh (handlers/auth.rs), *)
(* the MCP server's gate (mcp-server/src/auth.rs), error responses         *)
(* (errors.rs), and the start of the backend process with the vault key    *)
(* (main.rs, config.rs, crypto/mod.rs, handlers/connectors.rs).            *)
(*                                                                         *)
(* Time is an integer count of ticks, SubSec ticks to the second, so that  *)
(* chrono's DateTime comparisons are exact and .timestamp() is a floor.    *)
(* Every `.await` of a handler is a step boundary: other requests and the  *)
(* clock may run between two steps of the same request.                    *)
(***************************************************************************)
EXTENDS Integers, Sequences, FiniteSets, TLC

\* ---------------------------------------------------------------- bounds
SubSec == 2
MaxTicks == 1
MaxCodes == 1
MaxPlain == 1
NumNonces == 2
MaxEncrypts == 2

\* ------------------------------------------------------- program constants
CodeTTL == 10 * 60 * SubSec
TokenTTL == 24 * 60 * 60 * SubSec
JwtTTLSecs == 24 * 60 * 60
expires_in == 86400
Leeway == 60
jwt_access_token_expiry == 3600
jwt_refresh_token_expiry == 604800

oauth_client_id == "claude"
oauth_client_secret == "s3cret"
jwt_secret == "jwt-key"

\* ------------------------------------------------------------ input sets
Users == {1, 2}
Procs == {1, 2}
ClientIds == {oauth_client_id, "other-client"}
ClientSecrets == {oauth_client_secret, "wrong-secret"}
RedirectUris == {"https://a/cb", "https://b/cb"}
ResponseTypes == {"code", "token"}
GrantTypes == {"authorization_code", "password"}
\* random strings are named by number: n stands for the n-th distinct string
\* the generator has produced; MaxCodes + 1 is a string never generated
CodeStrings == 1..(MaxCodes + 1)
TokenStrings == 1..(2 * MaxCodes + 1)

None == <<>>
Some(x) == <<x>>
Scopes == {None, Some("read")}
States == {None, Some("xyz")}

\* users table: id -> username (handlers/users.rs is outside this model, so
\* the table is constant)
username_of(u) == IF u = 1 THEN "alice" ELSE "bob"

VARIABLES
    now,           \* Utc::now() / SQL NOW(), in ticks
    ticks,         \* number of clock steps taken
    oauth_codes,   \* table oauth_codes: sequence of rows, id = index
    oauth_tokens,  \* table oauth_tokens: set of rows
    pc,            \* per token request: the await it is suspended at
    req,           \* per token request: the TokenRequest payload
    loc,           \* per token request: the handler's local variables
    result,        \* per token request: the handler's return value
    authz,         \* return value of the latest authorize call
    session,       \* AuthResponse of the latest login call
    gate,          \* latest request through auth_middleware and its outcome
    refreshed,     \* latest call of the refresh handler and its outcome
    mcp,           \* latest request through the MCP server's auth_middleware
    server,        \* the backend process: its environment and how far main got
    connector,     \* return value of the latest create_or_update_connector
    gen,           \* latest run of generate_code / generate_token
    vault,         \* a TokenCrypto: its key, what encrypt returned, the latest decrypt
    connectors,    \* table connectors: set of rows
    pending,       \* the toggle_connector request suspended between its queries
    http,          \* latest request routed by a server and whether its handler ran
    users          \* table users: the ids of the rows present

\* what the handlers of the sections up to the generators never touch
more == <<vault, connectors, pending, http, users>>

\* what the OAuth, login and gate handlers never touch
rest == <<refreshed, mcp, server, connector, gen, more>>

vars == <<now, ticks, oauth_codes, oauth_tokens, pc, req, loc, result, authz,
          session, gate, rest>>

\* ------------------------------------------------------------- AppError
Authentication(msg) == [status |-> "Err", kind |-> "Authentication", msg |-> msg]
Validation(msg) == [status |-> "Err", kind |-> "Validation", msg |-> msg]
Database == [status |-> "Err", kind |-> "Database", msg |-> "sqlx::Error"]
Internal(msg) == [status |-> "Err", kind |-> "Internal", msg |-> msg]
NotFound(msg) == [status |-> "Err", kind |-> "NotFound", msg |-> msg]
Authorization(msg) == [status |-> "Err", kind |-> "Authorization", msg |-> msg]
NoResult == [status |-> "None"]
Dropped == [status |-> "Dropped"]

\* #[error(...)] Display of an AppError: a fixed prefix, then the payload
to_string(e) ==
    CASE e.kind = "Database" -> <<"Database error: ", e.msg>>
      [] e.kind = "Authentication" -> <<"Authentication error: ", e.msg>>
      [] e.kind = "Validation" -> <<"Validation error: ", e.msg>>
      [] e.kind = "NotFound" -> <<"Not found: ", e.msg>>
      [] e.kind = "Authorization" -> <<"Authorization error: ", e.msg>>
      [] e.kind = "Internal" -> <<"Internal server error: ", e.msg>>
      [] e.kind = "Jwt" -> <<"JWT error: ", e.msg>>

\* IntoResponse for AppError: status code and the JSON body's two fields
into_response(e) ==
    LET head ==
        CASE e.kind = "Database" -> <<500, "Database error occurred">>
          [] e.kind = "Authentication" -> <<401, e.msg>>
          [] e.kind = "Validation" -> <<400, e.msg>>
          [] e.kind = "NotFound" -> <<404, e.msg>>
          [] e.kind = "Authorization" -> <<403, e.msg>>
          [] e.kind = "Internal" -> <<500, "Internal server error">>
          [] e.kind = "Jwt" -> <<401, "Invalid or expired token">>
    IN  [code |-> head[1], error |-> head[2], message |-> to_string(e)]

\* --------------------------------------------------------- signed tokens
timestamp(t) == t \div SubSec

Claims(sub, exp, iat, token_type) ==
    [sub |-> sub, username |-> username_of(sub), exp |-> exp, iat |-> iat,
     token_type |-> token_type]

encode(claims, secret) == [k |-> "jwt", claims |-> claims, sig |-> secret]

\* ------------------------------------------------------------- authorize
AuthorizeRequests ==
    [client_id : ClientIds, redirect_uri : RedirectUris,
     response_type : ResponseTypes, scope : Scopes, state : States]

authorize_check_type_first(params) ==
    IF params.response_type # "code"
    THEN Validation("Only response_type=code is supported")
    ELSE IF params.client_id # oauth_client_id
    THEN Authentication("Invalid client_id")
    ELSE NoResult

\* lines 60-70
authorize_check(params) ==
    IF params.client_id # oauth_client_id
    THEN Authentication("Invalid client_id")
    ELSE IF params.response_type # "code"
    THEN Validation("Only response_type=code is supported")
    ELSE NoResult

code_expiry(t) == t + CodeTTL

\* generate_code draws 32 random bytes: a string not generated before
generate_code(codes) == Len(codes) + 1

authorize(sub, params) ==
    /\ Len(oauth_codes) < MaxCodes
    /\ LET err == authorize_check(params) IN
       IF err # NoResult
       THEN /\ authz' = err
            /\ UNCHANGED oauth_codes
       ELSE LET code == generate_code(oauth_codes) IN
            /\ oauth_codes' = Append(oauth_codes,
                   [code |-> code, client_id |-> params.client_id,
                    user_id |-> sub, redirect_uri |-> params.redirect_uri,
                    scope |-> params.scope, expires_at |-> code_expiry(now),
                    used_at |-> None])
            /\ authz' = [status |-> "Ok", code |-> code, state |-> params.state]
    /\ UNCHANGED <<now, ticks, oauth_tokens, pc, req, loc, result, session, gate, rest>>

\* line 88: `.await?` on a sqlx::Error of the INSERT
authorize_db_error ==
    /\ Len(oauth_codes) < MaxCodes
    /\ authz' = Database
    /\ UNCHANGED <<now, ticks, oauth_codes, oauth_tokens, pc, req, loc, result,
                   session, gate, rest>>

\* ----------------------------------------------------------------- token
TokenRequests ==
    [client_id : ClientIds, client_secret : ClientSecrets, code : CodeStrings,
     grant_type : GrantTypes, redirect_uri : RedirectUris]

\* SELECT ... FROM oauth_codes WHERE code = $1 AND client_id = $2
select_code(payload) ==
    {i \in DOMAIN oauth_codes :
        /\ oauth_codes[i].code = payload.code
        /\ oauth_codes[i].client_id = payload.client_id}

\* line 140: expires_at < Utc::now()
code_expired(expires_at, t) == expires_at < t

code_used_never(row) == FALSE

\* line 145: used_at.is_some()
code_used(row) == row.used_at # None

redirect_mismatch_never(row, payload) == FALSE

\* line 151: redirect_uri != payload.redirect_uri
redirect_mismatch(row, payload) == row.redirect_uri # payload.redirect_uri

token_checks_reuse_first(payload, t) ==
    IF \/ payload.client_id # oauth_client_id
       \/ payload.client_secret # oauth_client_secret
    THEN Authentication("Invalid client credentials")
    ELSE IF payload.grant_type # "authorization_code"
    THEN Validation("Only grant_type=authorization_code is supported")
    ELSE IF select_code(payload) = {}
    THEN Authentication("Authorization code not found")
    ELSE LET row == oauth_codes[CHOOSE i \in select_code(payload) : TRUE] IN
         IF code_used(row)
         THEN Authentication("Authorization code already used")
         ELSE IF code_expired(row.expires_at, t)
         THEN Validation("Authorization code expired")
         ELSE IF redirect_mismatch(row, payload)
         THEN Validation("Redirect URI mismatch")
         ELSE NoResult

\* the checks of token() up to the first write, in source order
token_checks(payload, t) ==
    IF \/ payload.client_id # oauth_client_id
       \/ payload.client_secret # oauth_client_secret
    THEN Authentication("Invalid client credentials")
    ELSE IF payload.grant_type # "authorization_code"
    THEN Validation("Only grant_type=authorization_code is supported")
    ELSE IF select_code(payload) = {}
    THEN Authentication("Authorization code not found")
    ELSE LET row == oauth_codes[CHOOSE i \in select_code(payload) : TRUE] IN
         IF code_expired(row.expires_at, t)
         THEN Validation("Authorization code expired")
         ELSE IF code_used(row)
         THEN Authentication("Authorization code already used")
         ELSE IF redirect_mismatch(row, payload)
         THEN Validation("Redirect URI mismatch")
         ELSE NoResult

InFlight == {"update", "user", "insert"}

Live(p) == pc[p] \in InFlight

\* UPDATE oauth_codes SET used_at = NOW() WHERE id = $1
mark_used(codes, id, t) == [codes EXCEPT ![id].used_at = Some(t)]

token_select_consuming(p, payload) ==
    /\ pc[p] \in {"idle", "done"}
    /\ LET pre == token_checks(payload, now) IN
       /\ IF pre # NoResult
          THEN /\ pc' = [pc EXCEPT ![p] = "done"]
               /\ result' = [result EXCEPT ![p] = pre]
               /\ req' = [req EXCEPT ![p] = None]
               /\ loc' = [loc EXCEPT ![p] = None]
               /\ oauth_codes' =
                      IF pre = Validation("Redirect URI mismatch")
                      THEN mark_used(oauth_codes,
                               CHOOSE i \in select_code(payload) : TRUE, now)
                      ELSE oauth_codes
          ELSE LET id == CHOOSE i \in select_code(payload) : TRUE IN
               /\ pc' = [pc EXCEPT ![p] = "update"]
               /\ req' = [req EXCEPT ![p] = Some(payload)]
               /\ result' = [result EXCEPT ![p] = NoResult]
               /\ loc' = [loc EXCEPT ![p] =
                      Some([code_id |-> id, user_id |-> oauth_codes[id].user_id,
                            scope |-> oauth_codes[id].scope])]
               /\ UNCHANGED oauth_codes
    /\ UNCHANGED <<now, ticks, oauth_tokens, authz, session, gate, rest>>

\* lines 109-153: credential and grant checks, code lookup, code checks
token_select(p, payload) ==
    /\ pc[p] \in {"idle", "done"}
    /\ LET pre == token_checks(payload, now) IN
       /\ IF pre # NoResult
          THEN /\ pc' = [pc EXCEPT ![p] = "done"]
               /\ result' = [result EXCEPT ![p] = pre]
               /\ req' = [req EXCEPT ![p] = None]
               /\ loc' = [loc EXCEPT ![p] = None]
          ELSE LET id == CHOOSE i \in select_code(payload) : TRUE IN
               /\ pc' = [pc EXCEPT ![p] = "update"]
               /\ req' = [req EXCEPT ![p] = Some(payload)]
               /\ result' = [result EXCEPT ![p] = NoResult]
               /\ loc' = [loc EXCEPT ![p] =
                      Some([code_id |-> id, user_id |-> oauth_codes[id].user_id,
                            scope |-> oauth_codes[id].scope])]
    /\ UNCHANGED <<now, ticks, oauth_codes, oauth_tokens, authz, session, gate, rest>>

\* line 129: `.await?` on a sqlx::Error of the SELECT, which runs only once
\* the credential and grant checks have passed
token_select_db_error(p) ==
    /\ pc[p] \in {"idle", "done"}
    /\ pc' = [pc EXCEPT ![p] = "done"]
    /\ result' = [result EXCEPT ![p] = Database]
    /\ req' = [req EXCEPT ![p] = None]
    /\ loc' = [loc EXCEPT ![p] = None]
    /\ UNCHANGED <<now, ticks, oauth_codes, oauth_tokens, authz, session, gate, rest>>

\* lines 155-161
token_mark_used(p) ==
    /\ pc[p] = "update"
    /\ oauth_codes' = mark_used(oauth_codes, loc[p][1].code_id, now)
    /\ pc' = [pc EXCEPT ![p] = "user"]
    /\ UNCHANGED <<now, ticks, oauth_tokens, req, loc, result, authz, session, gate, rest>>

\* generate_token draws 64 random bytes: a string not generated before
generate_token ==
    LET seen == {r.token : r \in oauth_tokens} \cup
                {loc[q][1].access_token : q \in {q \in Procs : pc[q] = "insert"}}
    IN  CHOOSE n \in 1..(Cardinality(seen) + 1) : n \notin seen

\* lines 163-176: user lookup, then generate_token and the token's expiry
token_get_user(p) ==
    /\ pc[p] = "user"
    /\ LET tok == generate_token IN
        /\ loc' = [loc EXCEPT ![p] =
               Some([code_id |-> loc[p][1].code_id, user_id |-> loc[p][1].user_id,
                     scope |-> loc[p][1].scope,
                     username |-> username_of(loc[p][1].user_id),
                     access_token |-> tok,
                     token_expires_at |-> now + TokenTTL,
                     scope_str |-> IF loc[p][1].scope = None THEN "all"
                                   ELSE loc[p][1].scope[1]])]
    /\ pc' = [pc EXCEPT ![p] = "insert"]
    /\ UNCHANGED <<now, ticks, oauth_codes, oauth_tokens, req, result, authz, session, gate, rest>>

exchange_claims_refresh(user_id, t) ==
    Claims(user_id, timestamp(t) + JwtTTLSecs, timestamp(t), "refresh")

\* lines 191-201: the Claims of the companion signed token
exchange_claims(user_id, t) ==
    Claims(user_id, timestamp(t) + JwtTTLSecs, timestamp(t), "access")

\* lines 178-225: INSERT INTO oauth_tokens, then the companion signed token
token_insert(p) ==
    /\ pc[p] = "insert"
    /\ LET l == loc[p][1] IN
       /\ oauth_tokens' = oauth_tokens \cup
              {[token |-> l.access_token, client_id |-> req[p][1].client_id,
                user_id |-> l.user_id, scope |-> l.scope_str,
                expires_at |-> l.token_expires_at]}
       /\ result' = [result EXCEPT ![p] =
              [status |-> "Ok",
               access_token |-> l.access_token,
               token_type |-> "Bearer",
               expires_in |-> expires_in,
               scope |-> l.scope_str,
               jwt_token |-> encode(exchange_claims(l.user_id, now),
                                    jwt_secret)]]
    /\ pc' = [pc EXCEPT ![p] = "done"]
    /\ UNCHANGED <<now, ticks, oauth_codes, req, loc, authz, session, gate, rest>>

\* `.await?` on a sqlx::Error at the pending query: the handler returns
\* AppError::Database and runs no further statement
token_db_error(p) ==
    /\ Live(p)
    /\ pc' = [pc EXCEPT ![p] = "done"]
    /\ result' = [result EXCEPT ![p] = Database]
    /\ UNCHANGED <<now, ticks, oauth_codes, oauth_tokens, req, loc, authz, session, gate, rest>>

\* the caller goes away and the handler's future is dropped at an await
token_dropped(p) ==
    /\ Live(p)
    /\ pc' = [pc EXCEPT ![p] = "done"]
    /\ result' = [result EXCEPT ![p] = Dropped]
    /\ UNCHANGED <<now, ticks, oauth_codes, oauth_tokens, req, loc, authz, session, gate, rest>>

\* ----------------------------------------------------------------- login
new_access_token(user_id, expiry, t) ==
    Claims(user_id, timestamp(t) + expiry, timestamp(t), "access")

new_refresh_token(user_id, expiry, t) ==
    Claims(user_id, timestamp(t) + expiry, timestamp(t), "refresh")

generate_jwt(claims, secret) == encode(claims, secret)

Usernames == {"alice", "bob", "nobody"}

\* handlers/auth.rs login: user by username, Argon2 check, token pair
login(username, password_ok) ==
    /\ LET found == {u \in users : username_of(u) = username} IN
       IF found = {} \/ ~password_ok
       THEN session' = Authentication("Invalid credentials")
       ELSE LET u == CHOOSE u \in found : TRUE IN
            session' =
              [status |-> "Ok",
               access_token |->
                   generate_jwt(new_access_token(u, jwt_access_token_expiry, now),
                                jwt_secret),
               refresh_token |->
                   generate_jwt(new_refresh_token(u, jwt_refresh_token_expiry, now),
                                jwt_secret),
               token_type |-> "Bearer",
               expires_in |-> jwt_access_token_expiry,
               user |-> u]
    /\ UNCHANGED <<now, ticks, oauth_codes, oauth_tokens, pc, req, loc, result,
                   authz, gate, rest>>

\* ------------------------------------------------------------------ gate
Ok(x) == [status |-> "Ok", claims |-> x]
Jwt(e) == [status |-> "Err", kind |-> "Jwt", msg |-> e]

\* jsonwebtoken::decode with Validation::default(): the signature first, then
\* exp against the current second with the default leeway
verify_jwt(token, secret, t) ==
    IF token.k # "jwt" THEN Jwt("InvalidToken")
    ELSE IF token.sig # secret THEN Jwt("InvalidSignature")
    ELSE IF token.claims.exp < timestamp(t) - Leeway THEN Jwt("ExpiredSignature")
    ELSE Ok(token.claims)

token_expired(expires_at, t) == expires_at < t

\* SELECT user_id, expires_at FROM oauth_tokens WHERE token = $1.  A signed
\* token contains '.', which generate_token filters out, so only an opaque
\* string can equal a stored token.
select_token(token) ==
    {r \in oauth_tokens : token.k = "opaque" /\ r.token = token.s}

verify_oauth_token(token, dbok, t) ==
    IF ~dbok THEN Database
    ELSE IF select_token(token) = {}
    THEN Authentication("OAuth token not found")
    ELSE LET row == CHOOSE r \in select_token(token) : TRUE IN
         IF token_expired(row.expires_at, t)
         THEN Authentication("OAuth token expired")
         ELSE Ok(Claims(row.user_id, timestamp(row.expires_at), timestamp(t),
                        "access"))

NoHeader == [scheme |-> "none"]
Header(scheme, token) == [scheme |-> scheme, token |-> token]

gate_outcome_no_fallback(header, dbok, t) ==
    IF header = NoHeader
    THEN [res |-> Authentication("Missing authorization header"), log |-> NoResult,
          calls |-> <<>>]
    ELSE IF header.scheme # "Bearer"
    THEN [res |-> Authentication("Invalid authorization header format"),
          log |-> NoResult, calls |-> <<>>]
    ELSE LET jwt == verify_jwt(header.token, jwt_secret, t) IN
         IF jwt.status = "Ok"
         THEN IF jwt.claims.token_type # "access"
              THEN [res |-> Authentication("Invalid token type"), log |-> NoResult,
                    calls |-> <<"verify_jwt">>]
              ELSE [res |-> jwt, log |-> NoResult, calls |-> <<"verify_jwt">>]
         ELSE [res |-> Authentication("Invalid token"), log |-> jwt,
               calls |-> <<"verify_jwt">>]

\* outcome of auth_middleware: the response (or the Claims handed to the
\* handler), what tracing recorded about the opaque-token path, and the
\* verifications it called, in order
gate_outcome(header, dbok, t) ==
    IF header = NoHeader
    THEN [res |-> Authentication("Missing authorization header"), log |-> NoResult,
          calls |-> <<>>]
    ELSE IF header.scheme # "Bearer"
    THEN [res |-> Authentication("Invalid authorization header format"),
          log |-> NoResult, calls |-> <<>>]
    ELSE LET jwt == verify_jwt(header.token, jwt_secret, t) IN
         IF jwt.status = "Ok"
         THEN IF jwt.claims.token_type # "access"
              THEN [res |-> Authentication("Invalid token type"), log |-> NoResult,
                    calls |-> <<"verify_jwt">>]
              ELSE [res |-> jwt, log |-> NoResult, calls |-> <<"verify_jwt">>]
         ELSE LET oauth == verify_oauth_token(header.token, dbok, t) IN
              IF oauth.status = "Ok"
              THEN [res |-> oauth, log |-> NoResult,
                    calls |-> <<"verify_jwt", "verify_oauth_token">>]
              ELSE [res |-> Authentication("Invalid token"), log |-> oauth,
                    calls |-> <<"verify_jwt", "verify_oauth_token">>]

NoRequest ==
    [header |-> NoHeader, at |-> 0, res |-> NoResult, log |-> NoResult,
     calls |-> <<>>]

auth_middleware(header, dbok) ==
    /\ gate' = [header |-> header, at |-> now] @@ gate_outcome(header, dbok, now)
    /\ UNCHANGED <<now, ticks, oauth_codes, oauth_tokens, pc, req, loc, result,
                   authz, session, rest>>

Opaque(s) == [k |-> "opaque", s |-> s]

\* bearer strings a caller can present: the tokens it was handed, the same
\* with a signature made under another key, and arbitrary opaque strings
ExchangeTokens ==
    {result[p].jwt_token : p \in {q \in Procs : result[q].status = "Ok"}}
    \cup {Opaque(result[p].access_token) :
            p \in {q \in Procs : result[q].status = "Ok"}}

SessionTokens ==
    IF session.status = "Ok"
    THEN {session.access_token, session.refresh_token} ELSE {}

HeldTokens == ExchangeTokens \cup SessionTokens

Forged(token) == [token EXCEPT !.sig = "other-key"]

Bearers ==
    HeldTokens
    \cup {Forged(t) : t \in {h \in HeldTokens : h.k = "jwt"}}
    \cup {Opaque(s) : s \in TokenStrings}

Headers ==
    {NoHeader} \cup {Header("Bearer", t) : t \in Bearers}
               \cup {Header("Basic", t) : t \in HeldTokens}

\* --------------------------------------------------------------- refresh
NoRefresh == [body |-> None, at |-> 0, res |-> NoResult]

\* lines 168-189: the new token pair
AuthResponse(u, t) ==
    [status |-> "Ok",
     access_token |->
         generate_jwt(new_access_token(u, jwt_access_token_expiry, t), jwt_secret),
     refresh_token |->
         generate_jwt(new_refresh_token(u, jwt_refresh_token_expiry, t), jwt_secret),
     token_type |-> "Bearer",
     expires_in |-> jwt_access_token_expiry,
     user |-> u]

refresh_outcome_any_kind(body, dbok, t) ==
    IF body = None THEN Validation("Missing refresh_token field")
    ELSE LET jwt == verify_jwt(body[1], jwt_secret, t) IN
         IF jwt.status # "Ok" THEN jwt
         ELSE IF ~dbok THEN Database
         ELSE IF jwt.claims.sub \notin users
         THEN Authentication("User not found")
         ELSE AuthResponse(jwt.claims.sub, t)

\* handlers/auth.rs refresh: the body's refresh_token field, verify_jwt with
\* `?`, the kind check, the user row, a new token pair
refresh_outcome(body, dbok, t) ==
    IF body = None THEN Validation("Missing refresh_token field")
    ELSE LET jwt == verify_jwt(body[1], jwt_secret, t) IN
         IF jwt.status # "Ok" THEN jwt
         ELSE IF jwt.claims.token_type # "refresh"
         THEN Authentication("Invalid token type")
         ELSE IF ~dbok THEN Database
         ELSE IF jwt.claims.sub \notin users
         THEN Authentication("User not found")
         ELSE AuthResponse(jwt.claims.sub, t)

refresh(body, dbok) ==
    /\ refreshed' = [body |-> body, at |-> now,
                     res |-> refresh_outcome(body, dbok, now)]
    /\ UNCHANGED <<now, ticks, oauth_codes, oauth_tokens, pc, req, loc, result,
                   authz, session, gate, mcp, server, connector, gen, more>>

\* ------------------------------------------------------------ MCP server
NoMcp == [header |-> NoHeader, at |-> 0, res |-> NoResult]

Unauthorized == [status |-> "Err", kind |-> "StatusCode", code |-> 401]

Rejected(msg) == [status |-> "Err", kind |-> "String", msg |-> msg]

\* mcp-server verify_jwt: decode with Validation::default(), then the kind
mcp_verify_jwt(token, secret, t) ==
    LET jwt == verify_jwt(token, secret, t) IN
    IF jwt.status # "Ok" THEN Rejected(<<"Invalid token: ", jwt.msg>>)
    ELSE IF jwt.claims.token_type # "access"
    THEN Rejected(<<"Token is not an access token">>)
    ELSE jwt

\* mcp-server auth_middleware: every failure becomes StatusCode::UNAUTHORIZED
mcp_gate_outcome(header, t) ==
    IF header = NoHeader THEN Unauthorized
    ELSE IF header.scheme # "Bearer" THEN Unauthorized
    ELSE LET jwt == mcp_verify_jwt(header.token, jwt_secret, t) IN
         IF jwt.status # "Ok" THEN Unauthorized ELSE jwt

mcp_auth_middleware(header) ==
    /\ mcp' = [header |-> header, at |-> now,
               res |-> mcp_gate_outcome(header, now)]
    /\ UNCHANGED <<now, ticks, oauth_codes, oauth_tokens, pc, req, loc, result,
                   authz, session, gate, refreshed, server, connector, gen, more>>

\* --------------------------------------------------------------- startup
\* ENCRYPTION_KEY: unset, or a string that is base64 or not and, decoded,
\* has some number of bytes
Key(is_base64, len) == Some([base64 |-> is_base64, len |-> len])

EncryptionKeys ==
    {None, Key(FALSE, 0), Key(TRUE, 16), Key(TRUE, 32), Key(TRUE, 33)}

\* a process that came up with a well-formed key
Serving == [stage |-> "serving", encryption_key |-> Key(TRUE, 32)]

\* main.rs line 18, Config::from_env: ENCRYPTION_KEY must be set, no more
from_env ==
    /\ server.stage = "start"
    /\ server' = [server EXCEPT !.stage =
           IF server.encryption_key = None THEN "panicked" ELSE "configured"]
    /\ UNCHANGED <<now, ticks, oauth_codes, oauth_tokens, pc, req, loc, result,
                   authz, session, gate, refreshed, mcp, connector, gen, more>>

\* main.rs lines 24-28: create_pool and test_connection, each with `?`
create_pool(ok) ==
    /\ server.stage = "configured"
    /\ server' = [server EXCEPT !.stage = IF ok THEN "connected" ELSE "exited"]
    /\ UNCHANGED <<now, ticks, oauth_codes, oauth_tokens, pc, req, loc, result,
                   authz, session, gate, refreshed, mcp, connector, gen, more>>

\* main.rs lines 32-44: create_router, bind with `?`, axum::serve
serve(ok) ==
    /\ server.stage = "connected"
    /\ server' = [server EXCEPT !.stage = IF ok THEN "serving" ELSE "exited"]
    /\ UNCHANGED <<now, ticks, oauth_codes, oauth_tokens, pc, req, loc, result,
                   authz, session, gate, refreshed, mcp, connector, gen, more>>

\* ------------------------------------------------------------ connectors
\* crypto/mod.rs TokenCrypto::new: base64::decode, then the length
TokenCrypto_new_any_length(key) ==
    IF ~key[1].base64 THEN Internal("Invalid encryption key format")
    ELSE [status |-> "Ok"]

TokenCrypto_new(key) ==
    IF ~key[1].base64 THEN Internal("Invalid encryption key format")
    ELSE IF key[1].len # 32
    THEN Internal("Encryption key must be exactly 32 bytes (44 base64 characters)")
    ELSE [status |-> "Ok"]

\* ------------------------------------------------------------ generators
\* The random bytes matter to the output only through the characters of
\* their base64 text: `symbols` is how many of them are '+' or '/', the
\* rest being letters and digits.  Characters are named by class.
sextets(n) == (8 * n + 5) \div 6

\* general_purpose::STANDARD.encode: 4 characters per 3 bytes, '=' padded
STANDARD_encode(n, symbols) ==
    [i \in 1..(4 * ((n + 2) \div 3)) |->
        IF i > sextets(n) THEN "="
        ELSE IF i <= symbols THEN "+/" ELSE "alnum"]

\* lines 237, 251: c.is_alphanumeric() || c == '_' || c == '-'
keep(c) == c \in {"alnum", "_", "-"}

take(chars, n) == SubSeq(chars, 1, IF Len(chars) < n THEN Len(chars) ELSE n)

generate_code_chars(symbols) ==
    take(SelectSeq(STANDARD_encode(32, symbols), keep), 48)

generate_token_chars(symbols) ==
    take(SelectSeq(STANDARD_encode(64, symbols), keep), 96)

run_generate_code(symbols) ==
    /\ gen' = [status |-> "Ok", fn |-> "generate_code", symbols |-> symbols,
               out |-> generate_code_chars(symbols)]
    /\ UNCHANGED <<now, ticks, oauth_codes, oauth_tokens, pc, req, loc, result,
                   authz, session, gate, refreshed, mcp, server, connector, more>>

run_generate_token(symbols) ==
    /\ gen' = [status |-> "Ok", fn |-> "generate_token", symbols |-> symbols,
               out |-> generate_token_chars(symbols)]
    /\ UNCHANGED <<now, ticks, oauth_codes, oauth_tokens, pc, req, loc, result,
                   authz, session, gate, refreshed, mcp, server, connector, more>>

\* ----------------------------------------------------------------- vault
\* crypto/mod.rs.  A byte is named by what it is: a byte of the nonce n, the
\* encryption under (key k, nonce n) of the plaintext byte c at position i,
\* a byte of the Poly1305 tag of (k, n, plaintext c), or a byte that is
\* none of these.  A string is base64 text of some bytes or it is not.
NoVault == [key |-> None, crypto |-> NoResult, blobs |-> <<>>, dec |-> NoResult]

Chars == {"a", "b"}
\* the texts handed to encrypt: every length up to MaxPlain, either first
\* character
Plaintexts ==
    {pt \in UNION {[1..n -> Chars] : n \in 0..MaxPlain} :
        \A i \in 2..Len(pt) : pt[i] = "b"}
NonceValues == 1..NumNonces

NonceByte(n) == [t |-> "nonce", k |-> "", n |-> n, i |-> 0, c |-> <<>>]
CipherByte(k, n, i, c) == [t |-> "ct", k |-> k, n |-> n, i |-> i, c |-> <<c>>]
TagByte(k, n, pt) == [t |-> "tag", k |-> k, n |-> n, i |-> 0, c |-> pt]
Junk == [t |-> "junk", k |-> "", n |-> 0, i |-> 0, c |-> <<>>]

base64_encode(bytes) ==
    [base64 |-> TRUE, bytes |-> bytes, chars |-> 4 * ((Len(bytes) + 2) \div 3)]

NotBase64 == [base64 |-> FALSE, bytes |-> <<>>, chars |-> 7]

\* ChaCha20Poly1305::generate_key, base64::encode: 32 bytes as base64 text
generate_key == Key(TRUE, 32)

\* the cipher key a well-formed ENCRYPTION_KEY decodes to
cipher_key == "k1"

\* Aead::encrypt: one byte per plaintext byte, then the 16-byte tag
aead_encrypt(k, n, pt) ==
    [i \in 1..Len(pt) |-> CipherByte(k, n, i, pt[i])]
        \o [i \in 1..16 |-> TagByte(k, n, pt)]

\* Nonce::from_slice: the value the 12 bytes spell, 0 for one never drawn
nonce_from_slice(bytes) ==
    IF \A i \in 1..12 : bytes[i].t = "nonce" /\ bytes[i].n = bytes[1].n
    THEN bytes[1].n ELSE 0

\* Aead::decrypt: the plaintext when the text is what aead_encrypt makes of
\* it under this key and nonce, an error otherwise
aead_decrypt(k, n, ciphertext) ==
    IF Len(ciphertext) < 16 THEN [status |-> "Err"]
    ELSE LET m == Len(ciphertext) - 16
             pt == [i \in 1..m |->
                       IF ciphertext[i].c = <<>> THEN "?" ELSE ciphertext[i].c[1]]
         IN  IF ciphertext = aead_encrypt(k, n, pt)
             THEN [status |-> "Ok", plaintext |-> pt]
             ELSE [status |-> "Err"]

encrypt_blob_nonce_last(k, n, pt) ==
    base64_encode(aead_encrypt(k, n, pt) \o [i \in 1..12 |-> NonceByte(n)])

\* lines 41-59: base64(nonce + ciphertext) under a random 96-bit nonce
encrypt_blob(k, n, pt) ==
    base64_encode([i \in 1..12 |-> NonceByte(n)] \o aead_encrypt(k, n, pt))

\* lines 63-90: base64::decode, split_at(12), Aead::decrypt, from_utf8
decrypt_outcome(k, encrypted_base64) ==
    IF ~encrypted_base64.base64
    THEN Internal("Invalid encrypted token format")
    ELSE LET encrypted_data == encrypted_base64.bytes IN
         IF Len(encrypted_data) < 12
         THEN Internal("Encrypted token is too short (corrupted?)")
         ELSE LET nonce == nonce_from_slice(SubSeq(encrypted_data, 1, 12))
                  ciphertext == SubSeq(encrypted_data, 13, Len(encrypted_data))
                  plain == aead_decrypt(k, nonce, ciphertext)
              IN  IF plain.status # "Ok"
                  THEN Authentication(
                           "Failed to decrypt token (corrupted or tampered?)")
                  ELSE IF \E i \in DOMAIN plain.plaintext :
                              plain.plaintext[i] \notin Chars
                  THEN Internal("Decrypted token is not valid UTF-8")
                  ELSE plain

\* TokenCrypto::new
new(key) ==
    /\ vault.key = None
    /\ vault' = [NoVault EXCEPT !.key = key, !.crypto = TokenCrypto_new(key)]
    /\ UNCHANGED <<now, ticks, oauth_codes, oauth_tokens, pc, req, loc, result,
                   authz, session, gate, refreshed, mcp, server, connector, gen,
                   connectors, pending, http, users>>

\* TokenCrypto::encrypt, the nonce being whatever rand::random returns
encrypt(plaintext, nonce) ==
    /\ vault.crypto.status = "Ok"
    /\ Len(vault.blobs) < MaxEncrypts
    /\ vault' = [vault EXCEPT !.blobs = Append(@,
           [plaintext |-> plaintext, nonce |-> nonce,
            blob |-> encrypt_blob(cipher_key, nonce, plaintext)])]
    /\ UNCHANGED <<now, ticks, oauth_codes, oauth_tokens, pc, req, loc, result,
                   authz, session, gate, refreshed, mcp, server, connector, gen,
                   connectors, pending, http, users>>

\* TokenCrypto::decrypt
decrypt(encrypted_base64) ==
    /\ vault.crypto.status = "Ok"
    /\ vault' = [vault EXCEPT !.dec =
           [input |-> encrypted_base64,
            res |-> decrypt_outcome(cipher_key, encrypted_base64)]]
    /\ UNCHANGED <<now, ticks, oauth_codes, oauth_tokens, pc, req, loc, result,
                   authz, session, gate, refreshed, mcp, server, connector, gen,
                   connectors, pending, http, users>>

\* what a caller can hand to decrypt: any blob encrypt returned, the latest
\* one with a byte replaced or cut short, text that is not base64, and a
\* blob made under another key
Tampered(blob, i) == base64_encode([blob.bytes EXCEPT ![i] = Junk])
Truncated(blob, n) == base64_encode(SubSeq(blob.bytes, 1, n))

DecryptInputs ==
    LET made == {vault.blobs[i].blob : i \in DOMAIN vault.blobs}
        last == {vault.blobs[i].blob : i \in {Len(vault.blobs)} \ {0}}
    IN  made
        \cup {Tampered(b, i) : b \in last, i \in {1, 12, 13, 28}}
        \cup {Tampered(b, Len(b.bytes)) : b \in last}
        \cup {Truncated(b, n) : b \in last, n \in {0, 11, 12, 27}}
        \cup {NotBase64}
        \cup {encrypt_blob("k2", n, pt) : n \in {1}, pt \in {<<>>, <<"a">>}}

\* ------------------------------------------------------------ connectors
\* handlers/connectors.rs, behind auth_middleware: the claims are those the
\* gate put into the request.  Table connectors is a set of rows.
Providers == {"anthropic", "gemini", "chatgpt"}

ApiTokens == {"", "sk-1"}

ConnectorRequests == [provider : {"anthropic", "openai"}, api_token : ApiTokens]

ProviderPaths == {"anthropic", "openai"}

\* str::as_bytes of the API tokens in use
as_bytes(s) == IF s = "" THEN <<>> ELSE <<"a">>

connector_outcome(claims, payload, key, dbok) ==
    IF payload.provider \notin Providers
    THEN Validation(<<"Invalid provider ", payload.provider>>)
    ELSE IF payload.api_token = ""
    THEN Validation("API token cannot be empty")
    ELSE IF TokenCrypto_new(key).status # "Ok" THEN TokenCrypto_new(key)
    ELSE IF ~dbok THEN Internal("Failed to create/update connector")
    ELSE [status |-> "Ok", code |-> 201, user_id |-> claims.sub,
          provider |-> payload.provider]

Connector(id, user_id, provider, encrypted_token) ==
    [id |-> id, user_id |-> user_id, provider |-> provider,
     encrypted_token |-> encrypted_token, is_active |-> TRUE]

upsert_insert_only(rows, user_id, provider, encrypted_token) ==
    rows \cup {Connector(Cardinality(rows) + 1, user_id, provider,
                         encrypted_token)}

\* lines 41-50: INSERT ... ON CONFLICT (user_id, provider) DO UPDATE SET
\* encrypted_token = $3
upsert(rows, user_id, provider, encrypted_token) ==
    IF \E r \in rows : r.user_id = user_id /\ r.provider = provider
    THEN {IF r.user_id = user_id /\ r.provider = provider
          THEN [r EXCEPT !.encrypted_token = encrypted_token]
          ELSE r : r \in rows}
    ELSE rows \cup {Connector(Cardinality(rows) + 1, user_id, provider,
                              encrypted_token)}

select_connector_any_user(rows, user_id, provider) ==
    {r \in rows : r.provider = provider}

\* lines 94, 144: SELECT ... WHERE user_id = $1 AND provider = $2
select_connector(rows, user_id, provider) ==
    {r \in rows : r.user_id = user_id /\ r.provider = provider}

\* what a handler did: the operation, the subject of its claims, the
\* result, the rows its query returned, the ciphertext it bound as $3
Answer(op, sub, res, rows) ==
    [op |-> op, sub |-> sub, res |-> res, rows |-> rows, sent |-> None]

\* POST /api/connectors
create_or_update_connector(payload, nonce, dbok) ==
    /\ server.stage = "serving"
    /\ gate.res.status = "Ok"
    /\ LET claims == gate.res.claims
           out == connector_outcome(claims, payload, server.encryption_key, dbok)
           encrypted_token ==
               encrypt_blob(cipher_key, nonce, as_bytes(payload.api_token))
       IN  /\ connectors' =
                 IF out.status = "Ok"
                 THEN upsert(connectors, claims.sub, payload.provider,
                             encrypted_token)
                 ELSE connectors
           /\ connector' =
                 IF out.status = "Ok"
                 THEN [Answer("create_or_update", claims.sub, out,
                              {r \in connectors' :
                                   /\ r.user_id = claims.sub
                                   /\ r.provider = payload.provider})
                       EXCEPT !.sent = Some(encrypted_token)]
                 ELSE Answer("create_or_update", claims.sub, out, {})
    /\ UNCHANGED <<now, ticks, oauth_codes, oauth_tokens, pc, req, loc, result,
                   authz, session, gate, refreshed, mcp, server, gen,
                   vault, pending, http, users>>

\* GET /api/connectors
list_connectors(dbok) ==
    /\ server.stage = "serving"
    /\ gate.res.status = "Ok"
    /\ LET claims == gate.res.claims IN
       connector' =
           IF ~dbok
           THEN Answer("list", claims.sub,
                       Internal("Failed to fetch connectors"), {})
           ELSE Answer("list", claims.sub, [status |-> "Ok", code |-> 200],
                       {r \in connectors : r.user_id = claims.sub})
    /\ UNCHANGED <<now, ticks, oauth_codes, oauth_tokens, pc, req, loc, result,
                   authz, session, gate, refreshed, mcp, server, gen,
                   vault, connectors, pending, http, users>>

\* GET /api/connectors/:provider
get_connector(provider, dbok) ==
    /\ server.stage = "serving"
    /\ gate.res.status = "Ok"
    /\ LET claims == gate.res.claims
           found == select_connector(connectors, claims.sub, provider)
       IN  connector' =
               IF ~dbok
               THEN Answer("get", claims.sub,
                           Internal("Failed to fetch connector"), {})
               ELSE IF found = {}
               THEN Answer("get", claims.sub,
                           NotFound(<<"Connector ", provider, " not found">>), {})
               ELSE Answer("get", claims.sub,
                           [status |-> "Ok", code |-> 200], found)
    /\ UNCHANGED <<now, ticks, oauth_codes, oauth_tokens, pc, req, loc, result,
                   authz, session, gate, refreshed, mcp, server, gen,
                   vault, connectors, pending, http, users>>

\* DELETE /api/connectors/:provider: UPDATE ... SET is_active = false
\* WHERE user_id = $1 AND provider = $2
delete_connector(provider, dbok) ==
    /\ server.stage = "serving"
    /\ gate.res.status = "Ok"
    /\ LET claims == gate.res.claims
           hit(r) == r.user_id = claims.sub /\ r.provider = provider
       IN  IF ~dbok
           THEN /\ connector' = Answer("delete", claims.sub,
                                       Internal("Failed to delete connector"), {})
                /\ UNCHANGED connectors
           ELSE /\ connectors' =
                       {IF hit(r) THEN [r EXCEPT !.is_active = FALSE] ELSE r :
                            r \in connectors}
                /\ connector' =
                       IF \A r \in connectors : ~hit(r)
                       THEN Answer("delete", claims.sub,
                                NotFound(<<"Connector ", provider, " not found">>),
                                {})
                       ELSE Answer("delete", claims.sub,
                                   [status |-> "Ok", code |-> 204], {})
    /\ UNCHANGED <<now, ticks, oauth_codes, oauth_tokens, pc, req, loc, result,
                   authz, session, gate, refreshed, mcp, server, gen,
                   vault, pending, http, users>>

\* PATCH /api/connectors/:provider/toggle, lines 143-154: the SELECT
toggle_select(provider, dbok) ==
    /\ server.stage = "serving"
    /\ gate.res.status = "Ok"
    /\ pending = None
    /\ LET claims == gate.res.claims
           found == select_connector(connectors, claims.sub, provider)
       IN  IF ~dbok
           THEN /\ connector' = Answer("toggle", claims.sub,
                                       Internal("Failed to fetch connector"), {})
                /\ UNCHANGED pending
           ELSE IF found = {}
           THEN /\ connector' =
                       Answer("toggle", claims.sub,
                              NotFound(<<"Connector ", provider, " not found">>),
                              {})
                /\ UNCHANGED pending
           ELSE /\ pending' = Some([sub |-> claims.sub,
                                    id |-> (CHOOSE r \in found : TRUE).id])
                /\ UNCHANGED connector
    /\ UNCHANGED <<now, ticks, oauth_codes, oauth_tokens, pc, req, loc, result,
                   authz, session, gate, refreshed, mcp, server, gen,
                   vault, connectors, http, users>>

\* lines 156-169: UPDATE ... SET is_active = NOT is_active WHERE id = $1
toggle_update(dbok) ==
    /\ pending # None
    /\ LET id == pending[1].id
           sub == pending[1].sub
       IN  IF ~dbok \/ \A r \in connectors : r.id # id
           THEN /\ connector' = Answer("toggle", sub,
                                    Internal("Failed to toggle connector"), {})
                /\ UNCHANGED connectors
           ELSE /\ connectors' =
                       {IF r.id = id THEN [r EXCEPT !.is_active = ~@] ELSE r :
                            r \in connectors}
                /\ connector' = Answer("toggle", sub,
                                       [status |-> "Ok", code |-> 200],
                                       {r \in connectors' : r.id = id})
    /\ pending' = None
    /\ UNCHANGED <<now, ticks, oauth_codes, oauth_tokens, pc, req, loc, result,
                   authz, session, gate, refreshed, mcp, server, gen,
                   vault, http, users>>

\* --------------------------------------------------------------- routing
\* A router is the sequence of its builder calls.  Router::layer wraps the
\* routes added before it, and no route added after it.
NoHttp == [server |-> "none"]

route(method, path, handler) ==
    [op |-> "route", method |-> method, path |-> path, handler |-> handler]

layer(name) == [op |-> "layer", method |-> "", path |-> "", handler |-> name]

\* routes.rs lines 46-51
public_routes ==
    << route("POST", "/api/auth/register", "register"),
       route("POST", "/api/auth/login", "login"),
       route("POST", "/api/auth/refresh", "refresh"),
       route("POST", "/oauth/token", "token") >>

Protected ==
    << route("GET", "/api/auth/me", "get_current_user"),
       route("POST", "/oauth/authorize", "authorize"),
       route("GET", "/api/users/:id", "get_user"),
       route("PUT", "/api/users/:id", "update_user"),
       route("DELETE", "/api/users/:id", "delete_user"),
       route("GET", "/api/books", "list_books"),
       route("POST", "/api/books", "create_book"),
       route("GET", "/api/books/:id", "get_book"),
       route("PUT", "/api/books/:id", "update_book"),
       route("DELETE", "/api/books/:id", "delete_book"),
       route("GET", "/api/books/:id/readings", "get_book_readings"),
       route("GET", "/api/readings", "list_readings"),
       route("POST", "/api/readings", "create_reading"),
       route("GET", "/api/readings/:id", "get_reading"),
       route("PUT", "/api/readings/:id", "update_reading"),
       route("DELETE", "/api/readings/:id", "delete_reading"),
       route("PATCH", "/api/readings/:id/complete", "complete_reading"),
       route("GET", "/api/readings/stats", "get_reading_stats"),
       route("GET", "/api/connectors", "list_connectors"),
       route("POST", "/api/connectors", "create_or_update_connector"),
       route("GET", "/api/connectors/:provider", "get_connector"),
       route("DELETE", "/api/connectors/:provider", "delete_connector"),
       route("PATCH", "/api/connectors/:provider/toggle", "toggle_connector"),
       route("POST", "/api/import/goodreads/csv", "import_goodreads_csv"),
       route("GET", "/mcp", "handle_mcp_sse"),
       route("POST", "/mcp", "handle_mcp_sse_post") >>

protected_routes_layer_first == <<layer("auth_middleware")>> \o Protected

\* routes.rs lines 54-93
protected_routes == Protected \o <<layer("auth_middleware")>>

\* routes.rs lines 96-98
public_metadata_routes ==
    << route("GET", "/health", "health"),
       route("GET", "/openapi.json", "openapi_schema") >>

\* routes.rs lines 101-107: the three routers merged, CORS around all
create_router ==
    {r \o <<layer("cors")>> :
        r \in {public_routes, protected_routes, public_metadata_routes}}

\* mcp-server main.rs lines 51-63
mcp_app ==
    {<< route("GET", "/health", "health_check"),
        route("POST", "/mcp", "handle_mcp_request"),
        layer("auth_middleware"),
        layer("cors") >>}

\* what a router serves: each route with the layers a request for it passes
Served(app) ==
    UNION {{[method |-> r[i].method, path |-> r[i].path,
             handler |-> r[i].handler,
             layers |-> {r[j].handler :
                            j \in {k \in (i + 1)..Len(r) : r[k].op = "layer"}}] :
                i \in {k \in DOMAIN r : r[k].op = "route"}} : r \in app}

\* the answer of a handler that ran: "OK" from the health checks
handled(handler) ==
    [status |-> "Ok",
     body |-> IF handler \in {"health", "health_check"} THEN "OK" ELSE "json"]

Exchange(srv, e, header, handler, claims, response) ==
    [server |-> srv, method |-> e.method, path |-> e.path, header |-> header,
     handler |-> handler, claims |-> claims, response |-> response]

\* one request to the backend, through the layers of its route to its handler
backend_request(e, header, dbok) ==
    /\ server.stage = "serving"
    /\ IF "auth_middleware" \in e.layers
       THEN LET out == gate_outcome(header, dbok, now) IN
            /\ gate' = [header |-> header, at |-> now] @@ out
            /\ http' = IF out.res.status = "Ok"
                       THEN Exchange("backend", e, header, Some(e.handler),
                                     Some(out.res.claims), handled(e.handler))
                       ELSE Exchange("backend", e, header, None, None, out.res)
       ELSE /\ http' = Exchange("backend", e, header, Some(e.handler), None,
                                handled(e.handler))
            /\ UNCHANGED gate
    /\ UNCHANGED <<now, ticks, oauth_codes, oauth_tokens, pc, req, loc, result,
                   authz, session, refreshed, mcp, server, connector, gen,
                   vault, connectors, pending, users>>

\* handlers/users.rs lines 82-103, DELETE /api/users/:id behind the gate
delete_user(user_id, dbok) ==
    /\ server.stage = "serving"
    /\ gate.res.status = "Ok"
    /\ LET claims == gate.res.claims
           e == [method |-> "DELETE", path |-> "/api/users/:id"]
           out == IF claims.sub # user_id THEN Authorization("Access denied")
                  ELSE IF ~dbok THEN Database
                  ELSE IF user_id \notin users THEN NotFound("User not found")
                  ELSE [status |-> "Ok", body |-> "User deleted successfully"]
       IN  /\ users' = IF out.status = "Ok" THEN users \ {user_id} ELSE users
           /\ http' = Exchange("backend", e, gate.header, Some("delete_user"),
                               Some(claims), out)
    /\ UNCHANGED <<now, ticks, oauth_codes, oauth_tokens, pc, req, loc, result,
                   authz, session, gate, refreshed, mcp, server, connector, gen,
                   vault, connectors, pending>>

\* one request to the MCP server
mcp_request(e, header) ==
    /\ IF "auth_middleware" \in e.layers
       THEN LET out == mcp_gate_outcome(header, now) IN
            /\ mcp' = [header |-> header, at |-> now, res |-> out]
            /\ http' = IF out.status = "Ok"
                       THEN Exchange("mcp", e, header, Some(e.handler),
                                     Some(out.claims), handled(e.handler))
                       ELSE Exchange("mcp", e, header, None, None, out)
       ELSE /\ http' = Exchange("mcp", e, header, Some(e.handler), None,
                                handled(e.handler))
            /\ UNCHANGED mcp
    /\ UNCHANGED <<now, ticks, oauth_codes, oauth_tokens, pc, req, loc, result,
                   authz, session, gate, refreshed, server, connector, gen,
                   vault, connectors, pending, users>>

\* ----------------------------------------------------------------- clock
Tick(d) ==
    /\ ticks < MaxTicks
    /\ now' = now + d
    /\ ticks' = ticks + 1
    /\ UNCHANGED <<oauth_codes, oauth_tokens, pc, req, loc, result, authz, session, gate, rest>>

\* clock steps that land on and after an expiry set at the time before
CodeJumps == {CodeTTL, CodeTTL + 1}
TokenJumps == {TokenTTL, TokenTTL + 1}

Init ==
    /\ now = 0
    /\ ticks = 0
    /\ oauth_codes = <<>>
    /\ oauth_tokens = {}
    /\ pc = [p \in Procs |-> "idle"]
    /\ req = [p \in Procs |-> None]
    /\ loc = [p \in Procs |-> None]
    /\ result = [p \in Procs |-> NoResult]
    /\ authz = NoResult
    /\ session = NoResult
    /\ gate = NoRequest
    /\ refreshed = NoRefresh
    /\ mcp = NoMcp
    /\ server = Serving
    /\ connector = NoResult
    /\ gen = NoResult
    /\ vault = NoVault
    /\ connectors = {}
    /\ pending = None
    /\ http = NoHttp
    /\ users = Users

\* requests of a well-behaved client: the registered credentials and flow
GoodAuthorizeRequests ==
    {r \in AuthorizeRequests :
        r.client_id = oauth_client_id /\ r.response_type = "code"}

GoodTokenRequests ==
    {r \in TokenRequests :
        /\ r.client_id = oauth_client_id
        /\ r.client_secret = oauth_client_secret
        /\ r.grant_type = "authorization_code"}

PlainRequests == {r \in AuthorizeRequests : r.scope = None /\ r.state = None}

token(p) ==
    \/ token_select_db_error(p)
    \/ token_mark_used(p)
    \/ token_get_user(p)
    \/ token_insert(p)
    \/ token_db_error(p)
    \/ token_dropped(p)

\* concurrent token requests of well-behaved clients
Next ==
    \/ \E d \in CodeJumps : Tick(d)
    \/ \E sub \in Users, params \in GoodAuthorizeRequests : authorize(sub, params)
    \/ \E p \in Procs, payload \in GoodTokenRequests : token_select(p, payload)
    \/ \E p \in Procs : token(p)

Spec == Init /\ [][Next]_vars

\* the authorization endpoint alone, arbitrary requests
NextAuthorize ==
    \/ \E d \in {1} \cup CodeJumps : Tick(d)
    \/ \E sub \in Users, params \in AuthorizeRequests : authorize(sub, params)
    \/ authorize_db_error

SpecAuthorize == Init /\ [][NextAuthorize]_vars

OneRedirect == {r \in AuthorizeRequests : r.redirect_uri = "https://a/cb"}

\* one token request at a time, arbitrary token requests against the codes
\* one user obtained for one redirect URI
NextSeq ==
    \/ \E d \in CodeJumps : Tick(d)
    \/ \E params \in GoodAuthorizeRequests \cap PlainRequests \cap OneRedirect :
           authorize(1, params)
    \/ \E payload \in TokenRequests : token_select(1, payload)
    \/ token(1)

SpecSeq == Init /\ [][NextSeq]_vars

\* the gate in front of a protected route, presented with what the token
\* endpoint handed out; one token request at a time
ExchangeHeaders == {NoHeader} \cup {Header("Bearer", t) : t \in ExchangeTokens}

NextGate ==
    \/ \E d \in TokenJumps : Tick(d)
    \/ \E sub \in Users,
          params \in GoodAuthorizeRequests \cap PlainRequests \cap OneRedirect :
           authorize(sub, params)
    \/ \E payload \in GoodTokenRequests : token_select(1, payload)
    \/ token(1)
    \/ \E h \in ExchangeHeaders, dbok \in BOOLEAN : auth_middleware(h, dbok)

SpecGate == Init /\ [][NextGate]_vars

\* first-party sessions and the gate; the token table holds what an earlier
\* exchange at time 0 left there
IssuedRow(u) ==
    [token |-> 1, client_id |-> oauth_client_id, user_id |-> u,
     scope |-> "all", expires_at |-> TokenTTL]

InitSession ==
    /\ now = 0
    /\ ticks = 0
    /\ oauth_codes = <<>>
    /\ oauth_tokens \in {{}} \cup {{IssuedRow(u)} : u \in Users}
    /\ pc = [p \in Procs |-> "idle"]
    /\ req = [p \in Procs |-> None]
    /\ loc = [p \in Procs |-> None]
    /\ result = [p \in Procs |-> NoResult]
    /\ authz = NoResult
    /\ session = NoResult
    /\ gate = NoRequest
    /\ refreshed = NoRefresh
    /\ mcp = NoMcp
    /\ server = Serving
    /\ connector = NoResult
    /\ gen = NoResult
    /\ vault = NoVault
    /\ connectors = {}
    /\ pending = None
    /\ http = NoHttp
    /\ users = Users

NextSession ==
    \/ \E d \in TokenJumps : Tick(d)
    \/ \E u \in Usernames, ok \in BOOLEAN : login(u, ok)
    \/ \E h \in Headers, dbok \in BOOLEAN : auth_middleware(h, dbok)

SpecSession == InitSession /\ [][NextSession]_vars

\* signed tokens: login, refresh and the two gates, presented with what
\* login handed out; the clock steps to the second a one-hour token expires,
\* to the next second, and past the verifier's leeway
JwtJumps ==
    {jwt_access_token_expiry * SubSec,
     (jwt_access_token_expiry + 1) * SubSec,
     (jwt_access_token_expiry + Leeway + 1) * SubSec}

SessionHeaders == {Header("Bearer", t) : t \in SessionTokens}

\* refresh request bodies: no refresh_token field, a token login handed out,
\* the same signed under another key, a string that is no signed token
SessionBodies ==
    {None} \cup {Some(t) : t \in SessionTokens}
           \cup {Some(Forged(t)) : t \in SessionTokens}
           \cup {Some(Opaque(1))}

NextSigned ==
    \/ \E d \in JwtJumps : Tick(d)
    \/ \E ok \in BOOLEAN : login("alice", ok)
    \/ \E h \in SessionHeaders : auth_middleware(h, TRUE)
    \/ \E body \in SessionBodies, dbok \in BOOLEAN : refresh(body, dbok)
    \/ \E h \in SessionHeaders : mcp_auth_middleware(h)

SpecSigned == Init /\ [][NextSigned]_vars

\* the generators alone, over every count of '+' and '/' their input can
\* encode to
NextGen ==
    \/ \E symbols \in 0..sextets(32) : run_generate_code(symbols)
    \/ \E symbols \in 0..sextets(64) : run_generate_token(symbols)

SpecGen == Init /\ [][NextGen]_vars

\* the backend process from its start, under any ENCRYPTION_KEY, and the
\* connector route once it serves
InitBoot ==
    /\ now = 0
    /\ ticks = 0
    /\ oauth_codes = <<>>
    /\ oauth_tokens = {}
    /\ pc = [p \in Procs |-> "idle"]
    /\ req = [p \in Procs |-> None]
    /\ loc = [p \in Procs |-> None]
    /\ result = [p \in Procs |-> NoResult]
    /\ authz = NoResult
    /\ session = NoResult
    /\ gate = NoRequest
    /\ refreshed = NoRefresh
    /\ mcp = NoMcp
    /\ server \in [stage : {"start"}, encryption_key : EncryptionKeys]
    /\ connector = NoResult
    /\ gen = NoResult
    /\ vault = NoVault
    /\ connectors = {}
    /\ pending = None
    /\ http = NoHttp
    /\ users = Users

NextBoot ==
    \/ from_env
    \/ \E ok \in BOOLEAN : create_pool(ok)
    \/ \E ok \in BOOLEAN : serve(ok)
    \/ \E u \in Usernames, ok \in BOOLEAN :
           server.stage = "serving" /\ login(u, ok)
    \/ \E h \in {NoHeader} \cup SessionHeaders :
           server.stage = "serving" /\ auth_middleware(h, TRUE)
    \/ \E payload \in ConnectorRequests, dbok \in BOOLEAN :
           create_or_update_connector(payload, 1, dbok)

SpecBoot == InitBoot /\ [][NextBoot]_vars

\* the connector handlers of a serving backend, called by whoever the gate
\* let in last; a toggle may be overtaken between its two queries
AccessHeaders ==
    IF session.status = "Ok"
    THEN {Header("Bearer", session.access_token)} ELSE {}

InitConnectors == InitSession /\ oauth_tokens = {}

NextConnectors ==
    \/ \E u \in {"alice", "bob"} : login(u, TRUE)
    \/ \E h \in {NoHeader} \cup AccessHeaders : auth_middleware(h, TRUE)
    \/ \E payload \in ConnectorRequests, nonce \in NonceValues,
           dbok \in BOOLEAN : create_or_update_connector(payload, nonce, dbok)
    \/ \E dbok \in BOOLEAN : list_connectors(dbok)
    \/ \E provider \in ProviderPaths, dbok \in BOOLEAN :
           get_connector(provider, dbok)
    \/ \E provider \in ProviderPaths, dbok \in BOOLEAN :
           delete_connector(provider, dbok)
    \/ \E provider \in ProviderPaths, dbok \in BOOLEAN :
           toggle_select(provider, dbok)
    \/ \E dbok \in BOOLEAN : toggle_update(dbok)

SpecConnectors == InitConnectors /\ [][NextConnectors]_vars

\* both servers answering requests for any of their routes: without a
\* header, with the tokens alice holds as Bearer, the access token under
\* another scheme or signed with another key, and an OAuth token of a row
RouteHeaders ==
    {NoHeader, Header("Bearer", Opaque(1))}
    \cup {Header("Bearer", t) : t \in SessionTokens}
    \cup (IF session.status = "Ok"
          THEN {Header("Basic", session.access_token),
                Header("Bearer", Forged(session.access_token))}
          ELSE {})

InitRoutes == InitSession /\ oauth_tokens = {IssuedRow(1)}

NextRoutes ==
    \/ login("alice", TRUE)
    \/ \E e \in Served(create_router), h \in RouteHeaders :
           backend_request(e, h, TRUE)
    \/ \E e \in Served(mcp_app), h \in RouteHeaders : mcp_request(e, h)

SpecRoutes == InitRoutes /\ [][NextRoutes]_vars

\* refresh against a user table that shrinks: logins, accounts deleted by
\* their owners, refresh requests, at times around the refresh expiry
RefreshJumps ==
    {jwt_refresh_token_expiry * SubSec,
     (jwt_refresh_token_expiry + 1) * SubSec,
     (jwt_refresh_token_expiry + Leeway + 1) * SubSec}

NextRefresh ==
    \/ \E d \in RefreshJumps : Tick(d)
    \/ \E u \in {"alice", "bob"} : login(u, TRUE)
    \/ \E h \in AccessHeaders : auth_middleware(h, TRUE)
    \/ \E user_id \in Users, dbok \in BOOLEAN : delete_user(user_id, dbok)
    \/ \E body \in SessionBodies, dbok \in BOOLEAN : refresh(body, dbok)

SpecRefresh == InitConnectors /\ [][NextRefresh]_vars

\* a vault on its own: construction from any key string, encryptions under
\* any nonce, decryptions of anything
NextVault ==
    \/ \E key \in (EncryptionKeys \ {None}) \cup {generate_key} : new(key)
    \/ \E plaintext \in Plaintexts, nonce \in NonceValues :
           encrypt(plaintext, nonce)
    \/ \E input \in DecryptInputs : decrypt(input)

SpecVault == Init /\ [][NextVault]_vars

TypeOK ==
    /\ now \in Nat
    /\ Len(oauth_codes) <= MaxCodes
    /\ Cardinality(oauth_tokens) <= 2 * MaxCodes

\* ------------------------------------------------------------ properties
Range(f) == {f[i] : i \in DOMAIN f}
Min(S) == CHOOSE n \in S : \A m \in S : n <= m

\* a step in which token request p starts: its first await is reached or it
\* returns at once
Starts(p) ==
    /\ pc[p] \in {"idle", "done"}
    /\ <<pc[p], req[p], loc[p], result[p]>>' # <<pc[p], req[p], loc[p], result[p]>>

\* the code row a token request selected
CodeRow(p) == oauth_codes[loc[p][1].code_id]

\* the token rows that carry the owner and client of code row i
TokensFor(i) ==
    {r \in oauth_tokens :
        /\ r.user_id = oauth_codes[i].user_id
        /\ r.client_id = oauth_codes[i].client_id}

\* C1: two token requests for the same authorization code never both return
\* success, whatever the interleaving of their database steps.
C1_AtMostOneSuccess ==
    \A p, q \in Procs :
        (p # q /\ result[p].status = "Ok" /\ result[q].status = "Ok")
            => loc[p][1].code_id # loc[q][1].code_id

\* C2: once every token request has ended (returned, failed or been dropped),
\* a code is marked used if and only if an opaque token of its exchange is
\* stored.
C2_AllOrNothing ==
    (\A p \in Procs : ~Live(p)) =>
        \A i \in DOMAIN oauth_codes :
            (oauth_codes[i].used_at # None) <=> (TokensFor(i) # {})

\* C3: a valid token request for a fresh code passes every check and its
\* insert returns a token; a second request for the code of a request that
\* has just succeeded fails, and within the code's lifetime it fails with the
\* Authentication error of a replayed code.
C3_Fresh(payload) ==
    \E i \in DOMAIN oauth_codes :
        /\ oauth_codes[i].code = payload.code
        /\ oauth_codes[i].used_at = None
        /\ oauth_codes[i].redirect_uri = payload.redirect_uri
        /\ now < oauth_codes[i].expires_at

C3_Replays(p, payload) ==
    /\ result[p].status = "Ok"
    /\ CodeRow(p).code = payload.code

C3_SecondExchangeFails ==
    [][\A p \in Procs :
        /\ Starts(p) => \A payload \in GoodTokenRequests :
            /\ (C3_Fresh(payload) /\ token_select(p, payload))
                   => pc'[p] = "update"
            /\ (C3_Replays(p, payload) /\ token_select(p, payload)) =>
                   /\ result'[p].status = "Err"
                   /\ now <= CodeRow(p).expires_at =>
                          result'[p] =
                              Authentication("Authorization code already used")
        /\ token_insert(p) =>
               /\ result'[p].status = "Ok"
               /\ \E r \in oauth_tokens' : r.token = result'[p].access_token
      ]_vars

C3_Witness ==
    /\ result[1] = Authentication("Authorization code already used")
    /\ oauth_tokens # {}
    /\ \E i \in DOMAIN oauth_codes : now <= oauth_codes[i].expires_at

\* C4: a code row is written at most once after its creation: no row is ever
\* removed, no field but used_at changes, and used_at, once set, keeps its
\* value.
C4_WrittenOnce ==
    [][\A i \in DOMAIN oauth_codes :
        /\ i \in DOMAIN oauth_codes'
        /\ [oauth_codes'[i] EXCEPT !.used_at = None]
               = [oauth_codes[i] EXCEPT !.used_at = None]
        /\ oauth_codes[i].used_at # None =>
               oauth_codes'[i].used_at = oauth_codes[i].used_at
      ]_vars

\* C5: a token request goes through only with the redirect_uri the code was
\* issued with; with any other redirect_uri it is rejected, and when the
\* request passes the five earlier checks the rejection is the Validation
\* error of the redirect check.
C5_EarlierChecksPass(payload, row) ==
    /\ payload.client_id = oauth_client_id
    /\ payload.client_secret = oauth_client_secret
    /\ payload.grant_type = "authorization_code"
    /\ ~(row.expires_at < now)
    /\ row.used_at = None

C5_RedirectBinding ==
    [][\A p \in Procs :
        /\ Starts(p) => \A payload \in TokenRequests :
            token_select(p, payload) =>
                \A row \in Range(oauth_codes) :
                    (row.code = payload.code
                        /\ row.redirect_uri # payload.redirect_uri) =>
                        /\ result'[p].status = "Err"
                        /\ C5_EarlierChecksPass(payload, row) =>
                               result'[p] = Validation("Redirect URI mismatch")
        /\ (pc'[p] \in InFlight \/ result'[p].status = "Ok") =>
               req'[p][1].redirect_uri
                   = oauth_codes'[loc'[p][1].code_id].redirect_uri
      ]_vars

C5_Witness ==
    /\ result[1] = Validation("Redirect URI mismatch")
    /\ \E i \in DOMAIN oauth_codes :
           oauth_codes[i].used_at = None /\ now <= oauth_codes[i].expires_at

\* C6: a token request reports the error of the first check that fails, in
\* the order credentials, grant type, code lookup, expiry, reuse, redirect;
\* so an expired code yields the Validation error whether used or not.
C6_Fails(n, payload) ==
    LET rows == {r \in Range(oauth_codes) :
                    r.code = payload.code /\ r.client_id = payload.client_id}
    IN  CASE n = 1 -> ~(/\ payload.client_id = oauth_client_id
                        /\ payload.client_secret = oauth_client_secret)
          [] n = 2 -> payload.grant_type # "authorization_code"
          [] n = 3 -> rows = {}
          [] n = 4 -> \E r \in rows : now > r.expires_at
          [] n = 5 -> \E r \in rows : r.used_at # None
          [] n = 6 -> \E r \in rows : r.redirect_uri # payload.redirect_uri

C6_Kind(n) == IF n \in {1, 3, 5} THEN "Authentication" ELSE "Validation"

\* the first of the six checks that fails, 0 if none does
RECURSIVE C6_First(_, _)
C6_First(n, payload) ==
    IF n > 6 THEN 0
    ELSE IF C6_Fails(n, payload) THEN n
    ELSE C6_First(n + 1, payload)

C6_ErrorOrder ==
    [][\A p \in Procs : Starts(p) =>
        \A payload \in TokenRequests : token_select(p, payload) =>
            LET first == C6_First(1, payload) IN
            IF first = 0
            THEN pc'[p] = "update"
            ELSE /\ pc'[p] = "done"
                 /\ result'[p].status = "Err"
                 /\ result'[p].kind = C6_Kind(first)
      ]_vars

C6_Witness ==
    /\ result[1] = Validation("Authorization code expired")
    /\ \E i \in DOMAIN oauth_codes : oauth_codes[i].used_at # None

\* C7: a token request made at any time now >= expires_at of its code,
\* now = expires_at included, is rejected.
C7_RejectedFromExpiry ==
    [][\A p \in Procs : Starts(p) =>
        \A payload \in TokenRequests :
            (/\ token_select(p, payload)
             /\ \E i \in select_code(payload) : now >= oauth_codes[i].expires_at)
                => result'[p].status = "Err"
      ]_vars

\* C9: authorize rejects a client_id other than the configured one with an
\* Authentication error, otherwise a response_type other than "code" with a
\* Validation error, storing nothing in either case; otherwise it stores
\* exactly one new row with the caller's subject, the request's client_id and
\* redirect_uri, used_at null and expires_at ten minutes from now.
C9_TenMinutes == 600 * SubSec

C9_Authorize ==
    [][authz' # authz => \A sub \in Users, params \in AuthorizeRequests :
        authorize(sub, params) =>
            IF params.client_id # oauth_client_id
            THEN /\ authz'.status = "Err" /\ authz'.kind = "Authentication"
                 /\ oauth_codes' = oauth_codes
            ELSE IF params.response_type # "code"
            THEN /\ authz'.status = "Err" /\ authz'.kind = "Validation"
                 /\ oauth_codes' = oauth_codes
            ELSE /\ Len(oauth_codes') = Len(oauth_codes) + 1
                 /\ SubSeq(oauth_codes', 1, Len(oauth_codes)) = oauth_codes
                 /\ LET row == oauth_codes'[Len(oauth_codes')] IN
                    /\ row.user_id = sub
                    /\ row.client_id = params.client_id
                    /\ row.redirect_uri = params.redirect_uri
                    /\ row.used_at = None
                    /\ row.expires_at = now + C9_TenMinutes
                    /\ authz'.status = "Ok"
                    /\ authz'.code = row.code
                    /\ \A i \in DOMAIN oauth_codes : oauth_codes[i].code # row.code
      ]_vars

C9_Witness ==
    /\ authz.status = "Ok"
    /\ Len(oauth_codes) = 1
    /\ oauth_codes[1].code = authz.code
    /\ oauth_codes[1].expires_at = now + C9_TenMinutes

\* C8: a successful token request returns an opaque token and a signed
\* access-kind token for the user who approved the code; the gate, presented
\* with either before it expires, hands on Claims with that user as subject;
\* every stored opaque token carries the user_id and client_id of its code.
C8_Exchanged(p) ==
    LET r == result[p]
        U == CodeRow(p).user_id
        row == CHOOSE x \in oauth_tokens : x.token = r.access_token
    IN  /\ r.jwt_token.k = "jwt"
        /\ r.jwt_token.sig = jwt_secret
        /\ r.jwt_token.claims.token_type = "access"
        /\ r.jwt_token.claims.sub = U
        /\ \E x \in oauth_tokens : x.token = r.access_token
        /\ row.user_id = U
        /\ row.client_id = CodeRow(p).client_id
        /\ (/\ gate.header = Header("Bearer", r.jwt_token)
            /\ timestamp(gate.at) <= r.jwt_token.claims.exp)
               => (gate.res.status = "Ok" /\ gate.res.claims.sub = U)
        /\ (/\ gate.header = Header("Bearer", Opaque(r.access_token))
            /\ gate.at < row.expires_at
            /\ gate.log # Database)
               => (gate.res.status = "Ok" /\ gate.res.claims.sub = U)

C8_State ==
    /\ \A p \in Procs : result[p].status = "Ok" => C8_Exchanged(p)
    /\ \A r \in oauth_tokens : \E i \in DOMAIN oauth_codes :
           /\ oauth_codes[i].used_at # None
           /\ oauth_codes[i].user_id = r.user_id
           /\ oauth_codes[i].client_id = r.client_id

C8_ExchangeTokens ==
    [][/\ C8_State'
       /\ \A p \in Procs : token_insert(p) =>
              \E r \in oauth_tokens' \ oauth_tokens :
                  /\ r.user_id = CodeRow(p).user_id
                  /\ r.client_id = CodeRow(p).client_id
                  /\ r.token = result'[p].access_token
      ]_vars

C8_Witness ==
    \E p \in Procs :
        /\ result[p].status = "Ok"
        /\ gate.header = Header("Bearer", Opaque(result[p].access_token))
        /\ gate.at > 0
        /\ gate.res.status = "Ok"
        /\ gate.res.claims.sub = CodeRow(p).user_id

\* C10: the gate accepts a signed access-kind token that verifies, rejects a
\* signed refresh-kind token that verifies, and on a signed token that does
\* not verify goes on to the opaque-token lookup, where it accepts a stored
\* token that has not expired; the Claims of every accepted credential have
\* the token's user as subject and kind access.
C10_Verifies(tok, t) ==
    tok.k = "jwt" /\ tok.sig = jwt_secret /\ timestamp(t) <= tok.claims.exp

C11_RejectedFromExpiry ==
    \A r \in oauth_tokens :
        (/\ gate.header = Header("Bearer", Opaque(r.token))
         /\ gate.at >= r.expires_at)
            => gate.res.status = "Err"

\* C12: a refresh-kind signed token is rejected by the backend gate and by
\* the MCP server's gate, and an access-kind signed token is rejected by the
\* refresh operation, valid signature and expiry notwithstanding.
C12_Kind(tok, kind) == tok.k = "jwt" /\ tok.claims.token_type = kind

C12_KindConfusion ==
    /\ (gate.header # NoHeader /\ C12_Kind(gate.header.token, "refresh"))
           => gate.res.status = "Err"
    /\ (mcp.header # NoHeader /\ C12_Kind(mcp.header.token, "refresh"))
           => mcp.res.status = "Err"
    /\ (refreshed.body # None /\ C12_Kind(refreshed.body[1], "access"))
           => refreshed.res.status = "Err"

C12_Valid(tok, at) ==
    tok.sig = jwt_secret /\ timestamp(at) <= tok.claims.exp

C12_Witness ==
    /\ gate.header # NoHeader /\ mcp.header # NoHeader /\ refreshed.body # None
    /\ C12_Kind(gate.header.token, "refresh")
    /\ C12_Valid(gate.header.token, gate.at)
    /\ gate.res = Authentication("Invalid token type")
    /\ C12_Kind(mcp.header.token, "refresh")
    /\ C12_Valid(mcp.header.token, mcp.at)
    /\ mcp.res = Unauthorized
    /\ C12_Kind(refreshed.body[1], "access")
    /\ C12_Valid(refreshed.body[1], refreshed.at)
    /\ refreshed.res = Authentication("Invalid token type")

\* C13: a signed access-kind token with a valid signature verifies at every
\* time up to its expires_at and fails at every time after it.
C13_VerifiesUntilExpiry ==
    (/\ gate.header # NoHeader
     /\ gate.header.token.k = "jwt"
     /\ gate.header.token.sig = jwt_secret
     /\ gate.header.token.claims.token_type = "access")
        => (gate.res.status = "Ok"
               <=> gate.at <= gate.header.token.claims.exp * SubSec)

\* C14: every failure of the dual-mode gate produces one and the same
\* response: a rejected request and any other request the gate would reject
\* now get the same status and body.
C14_OneResponse ==
    \A h \in Headers, dbok \in BOOLEAN :
        LET other == gate_outcome(h, dbok, now).res IN
        (gate.res.status = "Err" /\ other.status = "Err")
            => into_response(other) = into_response(gate.res)

\* C15: every failure of signed-token verification reaches the caller as
\* one response: a refresh request rejected by verify_jwt and any other
\* refresh request verify_jwt would reject now get the same status and body.
C15_JwtFailed(r) == r.status = "Err" /\ r.kind = "Jwt"

C15_OneResponse ==
    \A body \in SessionBodies :
        LET other == refresh_outcome(body, TRUE, now) IN
        (C15_JwtFailed(refreshed.res) /\ C15_JwtFailed(other))
            => into_response(other) = into_response(refreshed.res)

\* C16: the responses of the token exchange for a code not found, a code
\* expired and a code already used are one and the same: a request rejected
\* for one of these causes and any other request that would be rejected now
\* for one of them get the same status and body.
C16_Causes ==
    {Authentication("Authorization code not found"),
     Validation("Authorization code expired"),
     Authentication("Authorization code already used")}

C16_OneResponse ==
    \A p \in Procs, payload \in GoodTokenRequests :
        LET other == token_checks(payload, now) IN
        (result[p] \in C16_Causes /\ other \in C16_Causes)
            => into_response(other) = into_response(result[p])

\* C17: every Claims value the system constructs has exp > iat: those of
\* login and refresh, those of the token exchange, and those the gates hand
\* to the handlers, synthesized from an opaque token or decoded.
C17_Issued ==
    {tok.claims : tok \in SessionTokens}
    \cup {tok.claims : tok \in
            IF refreshed.res.status = "Ok"
            THEN {refreshed.res.access_token, refreshed.res.refresh_token}
            ELSE {}}
    \cup {result[p].jwt_token.claims :
            p \in {q \in Procs : result[q].status = "Ok"}}

C17_Accepted ==
    {r.claims : r \in {q \in {gate.res, mcp.res} : q.status = "Ok"}}

C17_ExpiresAfterIssued ==
    \A c \in C17_Issued \cup C17_Accepted : c.exp > c.iat

\* C18: every signed token issued has the lifetime configured for its kind:
\* exp - iat is the access-token TTL for an access-kind token and the
\* refresh-token TTL for a refresh-kind token, at login, at refresh and at
\* the token exchange.
C18_Lifetime(c) ==
    c.exp - c.iat = IF c.token_type = "access"
                    THEN jwt_access_token_expiry
                    ELSE jwt_refresh_token_expiry

C18_ConfiguredLifetimes ==
    /\ \A tok \in SessionTokens : C18_Lifetime(tok.claims)
    /\ refreshed.res.status = "Ok" =>
           /\ C18_Lifetime(refreshed.res.access_token.claims)
           /\ C18_Lifetime(refreshed.res.refresh_token.claims)
    /\ \A p \in Procs : result[p].status = "Ok" =>
           C18_Lifetime(result[p].jwt_token.claims)

\* C19: generate_code returns exactly 48 characters and generate_token
\* exactly 96, all from the alphabet of letters, digits, '_' and '-',
\* whatever the random bytes.
C19_Lengths ==
    gen.status = "Ok" =>
        /\ Len(gen.out) = IF gen.fn = "generate_code" THEN 48 ELSE 96
        /\ \A i \in DOMAIN gen.out : keep(gen.out[i])

\* C20: a backend process whose ENCRYPTION_KEY is not base64, or does not
\* decode to exactly 32 bytes, never reaches the state in which it serves
\* requests.
C20_Malformed(key) == key # None /\ TokenCrypto_new(key).status # "Ok"

C20_NeverServes ==
    C20_Malformed(server.encryption_key) => server.stage # "serving"

\* C21: decrypt answers every input that is not an untampered output of
\* encrypt under the same key - a changed byte, text that is not base64, a
\* blob shorter than the 12-byte nonce - with an Authentication error, and
\* never with a plaintext.
C21_Genuine(input) == \E i \in DOMAIN vault.blobs : vault.blobs[i].blob = input

C21_FailsClosed ==
    vault.dec # NoResult /\ ~C21_Genuine(vault.dec.input)
        => vault.dec.res.status = "Err" /\ vault.dec.res.kind = "Authentication"

\* C22: two encrypt calls return different blobs, and within one key no
\* nonce serves more than one encrypt call.
C22_NonceOnce ==
    \A i, j \in DOMAIN vault.blobs :
        i # j => /\ vault.blobs[i].nonce # vault.blobs[j].nonce
                 /\ vault.blobs[i].blob # vault.blobs[j].blob

\* C23: decrypt of a blob encrypt returned for P, under the same key, is P,
\* and no such blob is the text P itself.
C23_RoundTrip ==
    /\ \A i \in DOMAIN vault.blobs :
           /\ vault.blobs[i].blob.chars # Len(vault.blobs[i].plaintext)
    /\ vault.dec # NoResult =>
           \A i \in DOMAIN vault.blobs :
               vault.blobs[i].blob = vault.dec.input =>
                   /\ vault.dec.res.status = "Ok"
                   /\ vault.dec.res.plaintext = vault.blobs[i].plaintext

C23_Witness ==
    /\ Len(vault.blobs) = 2
    /\ vault.dec # NoResult
    /\ vault.dec.input = vault.blobs[1].blob
    /\ vault.dec.res.status = "Ok"
    /\ vault.dec.res.plaintext = <<"a">>

\* C24: TokenCrypto::new fails for a key that is not base64 or does not
\* decode to exactly 32 bytes, so that no vault exists, and succeeds for
\* every key generate_key makes.
C24_KeyShape ==
    vault.key # None =>
        /\ vault.crypto.status = "Ok"
               <=> vault.key[1].base64 /\ vault.key[1].len = 32
        /\ vault.key = generate_key => vault.crypto.status = "Ok"
        /\ vault.crypto.status # "Ok" =>
               /\ vault.crypto.status = "Err"
               /\ vault.blobs = <<>>
               /\ vault.dec = NoResult

C24_Witness ==
    /\ vault.key = Key(TRUE, 16)
    /\ vault.crypto.status = "Err"

\* C25: after any interleaving of create_or_update, delete and toggle the
\* store holds at most one record per (user_id, provider), and the record
\* for a pair holds the ciphertext of the latest successful upsert for it.
C25_OnePerKey ==
    /\ \A r1, r2 \in connectors :
           r1.user_id = r2.user_id /\ r1.provider = r2.provider => r1 = r2
    /\ connector # NoResult /\ connector.op = "create_or_update"
           /\ connector.res.status = "Ok" =>
           /\ \E r \in connectors :
                  r.user_id = connector.sub /\ r.provider = connector.res.provider
           /\ \A r \in connectors :
                  r.user_id = connector.sub /\ r.provider = connector.res.provider
                      => r.encrypted_token = connector.sent[1]

C25_Witness ==
    /\ connector # NoResult
    /\ connector.op = "create_or_update"
    /\ connector.res.status = "Ok"
    /\ Cardinality(connectors) = 2
    /\ \E r \in connector.rows :
           /\ r.id = 1
           /\ ~r.is_active
           /\ r.encrypted_token = encrypt_blob(cipher_key, 2, <<"a">>)

\* C27: a connector operation carried out with the Claims of user U
\* returns only records of U and leaves the records of every other user
\* as they were.
C27_Scoped ==
    connector' # NoResult =>
        /\ \A r \in connector'.rows : r.user_id = connector'.sub
        /\ \A r \in connectors \cup connectors' :
               r.user_id # connector'.sub => r \in connectors /\ r \in connectors'

C27_OwnRecordsOnly == [][C27_Scoped]_vars

C27_Witness ==
    /\ connector # NoResult
    /\ connector.op = "toggle"
    /\ connector.res.status = "Ok"
    /\ connector.sub = 1
    /\ gate.res.status = "Ok"
    /\ gate.res.claims.sub = 2
    /\ \E r \in connectors : r.user_id = 2

\* C26: on every protected route of the backend the handler runs only with
\* the Claims the gate stored after validating the presented credential; a
\* request without Authorization header, or with one that is not a Bearer
\* header, gets an authentication error before any verification or lookup
\* is called, and its handler does not run.
C26_Validated(header) ==
    /\ header # NoHeader
    /\ header.scheme = "Bearer"
    /\ \/ /\ header.token.k = "jwt"
          /\ header.token.sig = jwt_secret
          /\ header.token.claims.token_type = "access"
       \/ /\ header.token.k = "opaque"
          /\ \E r \in oauth_tokens : r.token = header.token.s

C26_GatedHandlers ==
    (/\ http.server = "backend"
     /\ \E i \in DOMAIN Protected :
            Protected[i].method = http.method /\ Protected[i].path = http.path)
    => /\ http.handler # None =>
              /\ http.claims # None
              /\ gate.header = http.header
              /\ gate.res.status = "Ok"
              /\ gate.res.claims = http.claims[1]
              /\ C26_Validated(http.header)
       /\ http.header = NoHeader \/ http.header.scheme # "Bearer" =>
              /\ http.handler = None
              /\ http.response.status = "Err"
              /\ http.response.kind = "Authentication"
              /\ gate.calls = <<>>

C26_Witness ==
    /\ http.server = "backend"
    /\ http.path = "/api/connectors"
    /\ http.header # NoHeader
    /\ http.header.scheme = "Basic"
    /\ http.header.token = session.access_token
    /\ http.handler = None
    /\ gate.calls = <<>>

\* C28: the MCP server answers /health with "OK" when the request has no
\* Authorization header, and runs the /mcp handler only for a valid access
\* token.
C28_HealthOpen ==
    http.server = "mcp" =>
        /\ http.path = "/health" /\ http.header = NoHeader =>
               /\ http.response.status = "Ok"
               /\ http.response.body = "OK"
        /\ http.path = "/mcp" /\ http.handler # None =>
               /\ http.header # NoHeader
               /\ http.header.scheme = "Bearer"
               /\ http.header.token.k = "jwt"
               /\ http.header.token.sig = jwt_secret
               /\ http.header.token.claims.token_type = "access"

\* C29: a token request rejected by one of the checks (client credentials,
\* grant type, code lookup, expiry, reuse, redirect URI) leaves the code
\* table and the token table as they were; after a redirect URI mismatch
\* the same request with the URI of the code passes every check.
C29_RejectionWritesNothing ==
    [][\A p \in Procs :
        (Starts(p) /\ pc'[p] = "done" /\ result'[p].status = "Err") =>
            /\ oauth_codes' = oauth_codes
            /\ oauth_tokens' = oauth_tokens
            /\ result'[p] = Validation("Redirect URI mismatch") =>
                   \A payload \in TokenRequests :
                       token_select(p, payload) =>
                           \A i \in select_code(payload) :
                               token_checks(
                                   [payload EXCEPT !.redirect_uri =
                                        oauth_codes[i].redirect_uri],
                                   now) = NoResult
      ]_vars

C29_Witness ==
    /\ result[1] = Validation("Redirect URI mismatch")
    /\ oauth_tokens = {}
    /\ \E i \in DOMAIN oauth_codes :
           oauth_codes[i].used_at = None /\ now < oauth_codes[i].expires_at

\* C30: refresh keeps no state about tokens: it succeeds only for a
\* correctly signed, unexpired refresh-kind token whose user exists, it
\* changes nothing, and every use of such a token, however many came
\* before, returns a new access/refresh pair for the same user.
C30_Usable(body, t) ==
    /\ body # None
    /\ body[1].k = "jwt"
    /\ body[1].sig = jwt_secret
    /\ body[1].claims.token_type = "refresh"
    /\ t <= body[1].claims.exp * SubSec
    /\ body[1].claims.sub \in users

C30_NewPair(res, sub) ==
    /\ res.user = sub
    /\ res.access_token.sig = jwt_secret
    /\ res.access_token.claims.sub = sub
    /\ res.access_token.claims.token_type = "access"
    /\ res.refresh_token.sig = jwt_secret
    /\ res.refresh_token.claims.sub = sub
    /\ res.refresh_token.claims.token_type = "refresh"

C30_Stateless ==
    [][refreshed' # refreshed =>
        /\ UNCHANGED <<session, users, oauth_tokens, oauth_codes, gate>>
        /\ refreshed'.res.status = "Ok" => C30_Usable(refreshed'.body, now)
        /\ C30_Usable(refreshed'.body, now) =>
               \/ refreshed'.res = Database
               \/ /\ refreshed'.res.status = "Ok"
                  /\ C30_NewPair(refreshed'.res, refreshed'.body[1].claims.sub)
      ]_vars

====
